---- MODULE Spec2Model ----
(***************************************************************************)
(* NomadSpawner (spawner.py) driving NomadService (nomad_service.py) and   *)
(* the consul registry.  One spawner instance; start / poll / stop are     *)
(* invoked one at a time by the hub.  Every await of start() is one step.  *)
(*                                                                         *)
(* Strings that the code takes apart (the job id that start() unpacks)     *)
(* are sequences of one-character strings; every identity field is such a  *)
(* sequence so that fields stay comparable.                                *)
(*                                                                         *)
(* The scheduler and the registry are the environment: each response is    *)
(* drawn from the responses the HTTP API can give.                         *)
(*                                                                         *)
(* Setting up an operation (building the httpx clients and the services,   *)
(* spawner.py:249-255, 352-356, 376-378) happens before the try block and  *)
(* may raise.  NomadService declares the attrs field `namespace: str`      *)
(* without a default (nomad_service.py:42) and no call site passes it, so  *)
(* with the attrs package as published the constructor raises TypeError;   *)
(* the set-up is modelled with both outcomes so that the bodies of the     *)
(* operations are covered as well.                                         *)
(***************************************************************************)
EXTENDS Integers, Sequences, FiniteSets, TLC

\* ---------------------------------------------------------------- bounds
MaxIdLen == 3       \* job ids returned by the scheduler have 1..MaxIdLen characters
MaxPolls == 3       \* status queries explored in one _ensure_running loop
MaxNodes == 2       \* instances in one registry answer
MaxOps == 2         \* operations invoked on the instance
MaxTasks == 2       \* tasks in the latest allocation
MaxAllocs == 2      \* allocations in one answer of the scheduler

\* ------------------------------------------------------------- constants
StopAfterAttempt == 5       \* @retry(stop=stop_after_attempt(5))

Alphabet == <<"a", "b", "c", "d", "e">>
NoAttr == <<"#noattr">>     \* the attribute was never assigned on the instance
None == <<"#none">>         \* Python None
Unbound == "#unbound"       \* a local variable that was never assigned
NoValue == "#"              \* no return value (the operation raised)

\* the ids the scheduler may return: one of each length ("a", "ab", "abc", ...)
JobIds == {[i \in 1..n |-> Alphabet[i]] : n \in 1..MaxIdLen}
Statuses == {"pending", "running", "dead", ""}
Endpoints == {"e1", "e2"}
NodeLists == UNION {[1..n -> Endpoints] : n \in 0..MaxNodes}
VolumeTypes == {"", "csi", "host"}
VolumeTexts == {"", "AccessPointAlreadyExists", "volume external ID cannot be updated", "other"}

\* notebook_id: sha1("{user.name}:{name}")[:10], fixed for one spawner instance
NotebookId == <<"n">>
VolumeId == <<"notebook-">> \o NotebookId

\* task states of an allocation, in the order of the TaskStates object
TaskStateNames == {"running", "pending", "dead"}
EventLists == {<<>>, <<"Driver">>, <<"Received", "Task Setup">>, <<"Driver", "Received">>}
Tasks == [State : TaskStateNames, Failed : BOOLEAN, Events : EventLists]
TaskLists == UNION {[1..n -> Tasks] : n \in 0..MaxTasks}
OlderTasks == <<[State |-> "dead", Failed |-> TRUE, Events |-> <<>>]>>

\* n allocations of which the p-th is the most recent one
AllocList(n, p, ts) ==
    [i \in 1..n |-> IF i = p THEN [CreateTime |-> 2, TaskStates |-> ts]
                              ELSE [CreateTime |-> 1, TaskStates |-> OlderTasks]]
AllocLists ==
    {<<>>} \cup {AllocList(n, p, ts) : n \in 1..MaxAllocs, p \in 1..MaxAllocs, ts \in TaskLists}

\* ------------------------------------------------- responses (environment)
AllocResponses ==
    {[is_error |-> TRUE, allocs |-> <<>>]}
        \cup {[is_error |-> FALSE, allocs |-> a] : a \in AllocLists}
StatusResponses ==
    {[is_error |-> TRUE, Status |-> ""]}
        \cup {[is_error |-> FALSE, Status |-> s] : s \in Statuses}
PlainResponses == {[is_error |-> e] : e \in BOOLEAN}
VolumeResponses ==
    {[is_error |-> FALSE, text |-> ""]}
        \cup {[is_error |-> TRUE, text |-> t] : t \in VolumeTexts \ {""}}
ParseResponses ==
    {[is_error |-> TRUE, ID |-> <<>>]}
        \cup {[is_error |-> FALSE, ID |-> i] : i \in JobIds}
RegistryResponses ==
    {[is_error |-> TRUE, nodes |-> <<>>]}
        \cup {[is_error |-> FALSE, nodes |-> n] : n \in NodeLists}

VARIABLES
    job_id, job_name, service_name, notebook_id,   \* the instance's identity
    pc,             \* where start() is suspended; "idle" between operations
    volume_type,    \* user_options["volume_type"] of the running start()
    status,         \* the local `status` of _ensure_running
    attempt,        \* attempts of service() made by the retry wrapper
    calls,          \* remote calls of the current (or last) operation, in order
    open,           \* clients opened by the current (or last) operation, not closed
    last,           \* the current (or last) operation and how it ended
    registered,     \* id of the job the scheduler registered for the last start()
    volumes,        \* volumes that exist at the scheduler
    nOps,
    saved,          \* the state the hub persisted last (a dict: key -> value)
    answer,         \* what the scheduler holds for the job: Status and allocations
    derived,        \* what task_status made of answer.allocations
    seen,           \* what job_status made of answer.Status
    polled,         \* what poll() returns for `seen`
    branch          \* what _ensure_running does for `seen`

spawnerVars == <<job_id, job_name, service_name, notebook_id, pc, volume_type, status,
                 attempt, calls, open, last, registered, volumes, nOps>>
statusVars == <<answer, derived, seen, polled, branch>>
vars == <<job_id, job_name, service_name, notebook_id, pc, volume_type, status,
          attempt, calls, open, last, registered, volumes, nOps, saved,
          answer, derived, seen, polled, branch>>

identity == <<job_id, job_name, service_name, notebook_id>>

Call(kind, arg, resp, nodes) ==
    [kind |-> kind, arg |-> arg, resp |-> resp, nodes |-> nodes]

Ended(op, outcome, value) == [op |-> op, outcome |-> outcome, value |-> value]

ErrText(response) == IF response.is_error THEN "error" ELSE "ok"

\* ------------------------------------------------------------ NomadService
create_volume_NoTolerance(result) == [raised |-> result.is_error]

\* create_volume raises unless the response is 2xx or carries one of the two
\* already-exists bodies
create_volume(result) ==
    [raised |-> result.is_error
                   /\ result.text # "AccessPointAlreadyExists"
                   /\ result.text # "volume external ID cannot be updated"]

schedule_job_IgnoresRegisterError(parsed_job, job) ==
    IF parsed_job.is_error THEN [raised |-> TRUE, registered |-> FALSE, value |-> <<>>]
    ELSE [raised |-> FALSE, registered |-> ~job.is_error, value |-> parsed_job.ID]

\* schedule_job: parse, then register; returns the parsed job's ID (one string)
schedule_job(parsed_job, job) ==
    IF parsed_job.is_error THEN [raised |-> TRUE, registered |-> FALSE, value |-> <<>>]
    ELSE IF job.is_error THEN [raised |-> TRUE, registered |-> FALSE, value |-> <<>>]
    ELSE [raised |-> FALSE, registered |-> TRUE, value |-> parsed_job.ID]

\* job_status: the job document's "Status", "" when the key is absent
job_status(response) ==
    IF response.is_error THEN [raised |-> TRUE, value |-> ""]
    ELSE [raised |-> FALSE, value |-> response.Status]

delete_job(response) == [raised |-> response.is_error]

get_task_state_from_event_FirstEvent(task) ==
    IF Len(task.Events) = 0 THEN "pending"
    ELSE IF task.Events[1] \in {"Driver", "Task Setup"} THEN "starting"
    ELSE "pending"

\* _get_task_state_from_event: the type of the task's last event
get_task_state_from_event(task) ==
    IF Len(task.Events) = 0 THEN "pending"
    ELSE IF task.Events[Len(task.Events)] \in {"Driver", "Task Setup"} THEN "starting"
    ELSE "pending"

\* max(allocs, key=CreateTime): the first allocation with the greatest CreateTime
LatestAlloc(allocs) ==
    allocs[CHOOSE i \in 1..Len(allocs) :
              /\ \A j \in 1..Len(allocs) : allocs[j].CreateTime <= allocs[i].CreateTime
              /\ \A j \in 1..(i - 1) : allocs[j].CreateTime < allocs[i].CreateTime]

\* the for loop of task_status over task_states.values(), from the i-th task on
RECURSIVE TaskLoop(_, _)
TaskLoop(ts, i) ==
    IF i > Len(ts) THEN "running"
    ELSE IF ts[i].State = "dead" /\ ts[i].Failed THEN "dead"
    ELSE IF ts[i].State # "running" THEN get_task_state_from_event(ts[i])
    ELSE TaskLoop(ts, i + 1)

\* task_status: an httpx Response is always truthy, so `if not allocs` never
\* returns; the body of an error response is no allocation list (raises), and
\* max() of an empty list raises ValueError
task_status(response) ==
    IF response.is_error THEN [raised |-> TRUE, value |-> ""]
    ELSE IF Len(response.allocs) = 0 THEN [raised |-> TRUE, value |-> ""]
    ELSE LET task_states == LatestAlloc(response.allocs).TaskStates IN
         IF Len(task_states) = 0 THEN [raised |-> FALSE, value |-> "pending"]
         ELSE [raised |-> FALSE, value |-> TaskLoop(task_states, 1)]

\* ------------------------------------------------------------ NomadSpawner
FirstStep_VolumeForAnyType(vt) == IF vt # "" THEN "volume" ELSE "submit"

\* lines 269-291: only volume_type "csi" creates a volume before the job is built
FirstStep(vt) == IF vt = "csi" THEN "volume" ELSE "submit"

\* create_job(JobData(...)): the job template is rendered; a requested volume
\* whose sub-fields are missing is rejected
create_job(vt, fields_ok) == [raised |-> vt # "" /\ ~fields_ok]

\* `job_id, job_name = <str>`: unpacking a string yields its characters and
\* raises ValueError unless there are exactly two
UnpackPair(s) ==
    IF Len(s) = 2 THEN [raised |-> FALSE, first |-> <<s[1]>>, second |-> <<s[2]>>]
    ELSE [raised |-> TRUE, first |-> <<>>, second |-> <<>>]

\* f"{job_id}-notebook"
ServiceNameOf(id) == id \o <<"-notebook">>

EnsureBranch_BreakOnPending(s) ==
    IF s = "running" \/ s = "pending" THEN "break"
    ELSE IF s = "dead" THEN "raise"
    ELSE "sleep"

EnsureBranch_DeadRetried(s) ==
    IF s = "running" THEN "break" ELSE "sleep"

EnsureBranch_RunningKeepsWaiting(s) ==
    IF s = "dead" THEN "raise" ELSE "sleep"

\* the if / elif / else of _ensure_running
EnsureBranch(s) ==
    IF s = "running" THEN "break"
    ELSE IF s = "dead" THEN "raise"
    ELSE "sleep"

\* one attempt of service(): nodes[0] of what the registry returned
health_service(response) ==
    [raised |-> response.is_error, nodes |-> response.nodes]

service(response) ==
    LET r == health_service(response) IN
    IF r.raised THEN [raised |-> TRUE, value |-> NoValue]
    ELSE IF Len(r.nodes) = 0 THEN [raised |-> TRUE, value |-> NoValue]
    ELSE [raised |-> FALSE, value |-> r.nodes[1]]

RetryStops_OneMore(n) == n > StopAfterAttempt

\* tenacity: retry after a raising attempt until stop_after_attempt is reached
RetryStops(n) == n >= StopAfterAttempt

poll_result_FalsyIsHealthy(r) ==
    IF r.raised THEN "-1"
    ELSE IF r.value = "running" \/ r.value = "" THEN "None"
    ELSE r.value

poll_result_ErrorAsStatus(r) ==
    IF r.value = "running" THEN "None" ELSE r.value

\* poll(): None when running, else the status; -1 when the query raised
poll_result(r) ==
    IF r.raised THEN "-1"
    ELSE IF r.value = "running" THEN "None"
    ELSE r.value

get_state ==
    [job_id |-> job_id, job_name |-> job_name,
     service_name |-> service_name, notebook_id |-> notebook_id]

\* a state dict without any of the four keys, and an instance just constructed
EmptyState == [k \in {} |-> None]
FreshInstance ==
    [job_id |-> NoAttr, job_name |-> NoAttr,
     service_name |-> NoAttr, notebook_id |-> NoAttr]

load_state_NameAsId(state, inst) ==
    [job_id |-> IF "job_name" \in DOMAIN state THEN state.job_name ELSE inst.job_id,
     job_name |-> IF "job_name" \in DOMAIN state THEN state.job_name ELSE inst.job_name,
     service_name |-> IF "service_name" \in DOMAIN state THEN state.service_name
                      ELSE inst.service_name,
     notebook_id |-> IF "notebook_id" \in DOMAIN state THEN state.notebook_id
                     ELSE inst.notebook_id]

\* load_state: every key that the dict holds is assigned to its attribute
load_state(state, inst) ==
    [job_id |-> IF "job_id" \in DOMAIN state THEN state.job_id ELSE inst.job_id,
     job_name |-> IF "job_name" \in DOMAIN state THEN state.job_name ELSE inst.job_name,
     service_name |-> IF "service_name" \in DOMAIN state THEN state.service_name
                      ELSE inst.service_name,
     notebook_id |-> IF "notebook_id" \in DOMAIN state THEN state.notebook_id
                     ELSE inst.notebook_id]

\* ------------------------------------------------------------------- Init
InstanceInit ==
    /\ job_id = NoAttr /\ job_name = NoAttr
    /\ service_name = NoAttr /\ notebook_id = NoAttr
    /\ pc = "idle"
    /\ volume_type = ""
    /\ status = Unbound
    /\ attempt = 0
    /\ calls = <<>>
    /\ open = {}
    /\ last = Ended("none", "none", NoValue)
    /\ registered = None
    /\ volumes = {}
    /\ nOps = 0
    /\ saved = EmptyState

\* no status derivation is under way
StatusIdle ==
    /\ answer = [Status |-> "", allocations |-> [is_error |-> TRUE, allocs |-> <<>>]]
    /\ derived = Unbound /\ seen = Unbound /\ polled = Unbound /\ branch = Unbound

Init == InstanceInit /\ StatusIdle

\* start() fails: except logs and re-raises, finally closes both clients
StartRaises ==
    /\ pc' = "idle"
    /\ open' = {}
    /\ last' = Ended("start", "raised", NoValue)

\* start(), lines 249-267: set-up, then the first step of the try block
StartCall ==
    /\ pc = "idle" /\ nOps < MaxOps
    /\ nOps' = nOps + 1
    /\ calls' = <<>>
    /\ status' = Unbound
    /\ attempt' = 0
    /\ registered' = None
    /\ \E setup_ok \in BOOLEAN, vt \in VolumeTypes :
          /\ volume_type' = vt
          /\ IF setup_ok
             THEN /\ open' = {"nomad", "consul"}
                  /\ pc' = FirstStep(vt)
                  /\ last' = Ended("start", "running", NoValue)
             ELSE /\ open' = {"nomad"}
                  /\ pc' = "idle"
                  /\ last' = Ended("start", "raised", NoValue)
    /\ UNCHANGED <<identity, volumes>>
    /\ UNCHANGED <<saved, statusVars>>

\* lines 275-285: await nomad_service.create_volume(...)
StartCreateVolume ==
    /\ pc = "volume"
    /\ \E result \in VolumeResponses :
          /\ calls' = Append(calls, Call("create_volume", VolumeId,
                                         IF result.is_error THEN result.text ELSE "ok",
                                         <<>>))
          /\ volumes' = IF result.is_error THEN volumes ELSE volumes \cup {VolumeId}
          /\ IF create_volume(result).raised
             THEN StartRaises
             ELSE pc' = "submit" /\ UNCHANGED <<open, last>>
    /\ UNCHANGED <<identity, volume_type, status, attempt, registered, nOps>>
    /\ UNCHANGED <<saved, statusVars>>

\* lines 293-308: create_job, await schedule_job, unpack, assign the identity
StartScheduleJob ==
    /\ pc = "submit"
    /\ \E fields_ok \in BOOLEAN, parsed_job \in ParseResponses, job \in PlainResponses :
          LET r == schedule_job(parsed_job, job)
              u == UnpackPair(r.value)
              parseCall == Call("parse", <<>>, ErrText(parsed_job), <<>>)
              regCall == Call("register", parsed_job.ID, ErrText(job), <<>>)
          IN
          IF create_job(volume_type, fields_ok).raised
          THEN /\ parsed_job.is_error /\ ~job.is_error   \* no call is made: one case
               /\ StartRaises
               /\ UNCHANGED <<identity, calls, registered>>
          ELSE
          /\ parsed_job.is_error => ~job.is_error     \* no register call then: one case
          /\ calls' = IF parsed_job.is_error THEN Append(calls, parseCall)
                      ELSE Append(Append(calls, parseCall), regCall)
          /\ registered' = IF r.registered THEN r.value ELSE registered
          /\ IF r.raised \/ u.raised
             THEN StartRaises /\ UNCHANGED identity
             ELSE /\ job_id' = u.first
                  /\ job_name' = u.second
                  /\ notebook_id' = NotebookId
                  /\ pc' = "ensure"
                  /\ UNCHANGED <<service_name, open, last>>
    /\ UNCHANGED <<volume_type, status, attempt, volumes, nOps>>
    /\ UNCHANGED <<saved, statusVars>>

\* lines 324-336 and 311: one iteration of the loop of _ensure_running
StartEnsureRunning ==
    /\ pc = "ensure"
    /\ Len(SelectSeq(calls, LAMBDA c : c.kind = "status")) < MaxPolls
    /\ \E response \in StatusResponses :
          LET r == job_status(response)
              s == IF r.raised THEN status ELSE r.value
              resp == IF r.raised THEN "error" ELSE r.value
          IN
          /\ calls' = Append(calls, Call("status", job_id, resp, <<>>))
          /\ status' = s
          /\ IF s = Unbound                       \* UnboundLocalError at line 330
             THEN StartRaises /\ UNCHANGED service_name
             ELSE CASE EnsureBranch(s) = "break" ->
                         /\ service_name' = ServiceNameOf(job_id)
                         /\ pc' = "resolve"
                         /\ UNCHANGED <<open, last>>
                    [] EnsureBranch(s) = "raise" ->
                         StartRaises /\ UNCHANGED service_name
                    [] OTHER ->
                         UNCHANGED <<service_name, pc, open, last>>
    /\ UNCHANGED <<job_id, job_name, notebook_id, volume_type, attempt,
                   registered, volumes, nOps>>
    /\ UNCHANGED <<saved, statusVars>>

\* the task running start() is cancelled while _ensure_running is suspended at
\* an await of its loop (lines 327, 336): CancelledError is not an Exception,
\* so neither except clause (328, 313) catches it; the finally of start()
\* (317-321) closes both clients
StartCancelled ==
    /\ pc = "ensure"
    /\ pc' = "idle"
    /\ open' = {}
    /\ last' = Ended("start", "cancelled", NoValue)
    /\ UNCHANGED <<identity, volume_type, status, attempt, calls,
                   registered, volumes, nOps>>
    /\ UNCHANGED <<saved, statusVars>>

\* lines 338-348 and 312-322: one attempt of service() under the retry wrapper
StartService ==
    /\ pc = "resolve"
    /\ \E response \in RegistryResponses :
          LET r == service(response)
              n == attempt + 1
          IN
          /\ calls' = Append(calls, Call("registry", service_name,
                                         ErrText(response), response.nodes))
          /\ attempt' = n
          /\ IF ~r.raised
             THEN /\ pc' = "idle"
                  /\ open' = {}
                  /\ last' = Ended("start", "returned", r.value)
             ELSE IF RetryStops(n)
             THEN StartRaises
             ELSE UNCHANGED <<pc, open, last>>
    /\ UNCHANGED <<identity, volume_type, status, registered, volumes, nOps>>
    /\ UNCHANGED <<saved, statusVars>>

\* poll(), lines 350-372
Poll ==
    /\ pc = "idle" /\ nOps < MaxOps
    /\ nOps' = nOps + 1
    /\ \E setup_ok \in BOOLEAN, response \in StatusResponses :
          IF ~setup_ok
          THEN /\ response = [is_error |-> TRUE, Status |-> ""]   \* no query: one case
               /\ calls' = <<>>
               /\ open' = {"nomad"}
               /\ last' = Ended("poll", "raised", NoValue)
          ELSE IF job_id = NoAttr                 \* AttributeError inside the try
          THEN /\ response = [is_error |-> TRUE, Status |-> ""]
               /\ calls' = <<>>
               /\ open' = {}
               /\ last' = Ended("poll", "returned", "-1")
          ELSE LET r == job_status(response) IN
               /\ calls' = <<Call("status", job_id,
                                  IF r.raised THEN "error" ELSE r.value, <<>>)>>
               /\ open' = {}
               /\ last' = Ended("poll", "returned", poll_result(r))
    /\ UNCHANGED <<identity, pc, volume_type, status, attempt, registered, volumes>>
    /\ UNCHANGED <<saved, statusVars>>

Stop_DeletesVolume ==
    /\ pc = "idle" /\ nOps < MaxOps
    /\ nOps' = nOps + 1
    /\ \E setup_ok \in BOOLEAN, response \in PlainResponses :
          IF ~setup_ok
          THEN /\ response.is_error
               /\ calls' = <<>>
               /\ open' = {"nomad"}
               /\ last' = Ended("stop", "raised", NoValue)
               /\ UNCHANGED <<identity, registered>>
          ELSE IF job_id = NoAttr                 \* AttributeError inside the try
          THEN /\ response.is_error
               /\ calls' = <<>>
               /\ open' = {}
               /\ last' = Ended("stop", "returned", "None")
               /\ UNCHANGED <<identity, registered>>
          ELSE /\ calls' = <<Call("delete_job", job_id, ErrText(response), <<>>),
                           Call("delete_volume", VolumeId, "ok", <<>>)>>
               /\ open' = {}
               /\ last' = Ended("stop", "returned", "None")
               /\ IF delete_job(response).raised
                  THEN UNCHANGED <<identity, registered>>
                  ELSE /\ job_id' = None
                       /\ job_name' = None
                       /\ service_name' = None
                       /\ UNCHANGED notebook_id
                       /\ registered' = IF registered = job_id THEN None ELSE registered
    /\ volumes' = volumes \ {VolumeId}
    /\ UNCHANGED <<pc, volume_type, status, attempt>>
    /\ UNCHANGED <<saved, statusVars>>

\* stop(), lines 374-387, with clear_state, lines 411-416
Stop ==
    /\ pc = "idle" /\ nOps < MaxOps
    /\ nOps' = nOps + 1
    /\ \E setup_ok \in BOOLEAN, response \in PlainResponses :
          IF ~setup_ok
          THEN /\ response.is_error
               /\ calls' = <<>>
               /\ open' = {"nomad"}
               /\ last' = Ended("stop", "raised", NoValue)
               /\ UNCHANGED <<identity, registered>>
          ELSE IF job_id = NoAttr                 \* AttributeError inside the try
          THEN /\ response.is_error
               /\ calls' = <<>>
               /\ open' = {}
               /\ last' = Ended("stop", "returned", "None")
               /\ UNCHANGED <<identity, registered>>
          ELSE /\ calls' = <<Call("delete_job", job_id, ErrText(response), <<>>)>>
               /\ open' = {}
               /\ last' = Ended("stop", "returned", "None")
               /\ IF delete_job(response).raised
                  THEN UNCHANGED <<identity, registered>>
                  ELSE /\ job_id' = None
                       /\ job_name' = None
                       /\ service_name' = None
                       /\ UNCHANGED notebook_id
                       /\ registered' = IF registered = job_id THEN None ELSE registered
    /\ UNCHANGED <<pc, volume_type, status, attempt, volumes>>
    /\ UNCHANGED <<saved, statusVars>>

\* the hub persists get_state() of the instance (lines 389-397) once start()
\* or stop() has returned; reading an attribute that was never assigned raises
\* AttributeError and nothing is saved
SaveState ==
    /\ pc = "idle"
    /\ last.op \in {"start", "stop"} /\ last.outcome = "returned"
    /\ job_id # NoAttr /\ job_name # NoAttr
    /\ service_name # NoAttr /\ notebook_id # NoAttr
    /\ saved' = get_state
    /\ UNCHANGED <<spawnerVars, statusVars>>

\* the hub process restarts: a new instance, then load_state(saved), lines 399-409
Restart ==
    /\ pc = "idle"
    /\ LET inst == load_state(saved, FreshInstance) IN
          /\ job_id' = inst.job_id
          /\ job_name' = inst.job_name
          /\ service_name' = inst.service_name
          /\ notebook_id' = inst.notebook_id
    /\ calls' = <<>>
    /\ open' = {}
    /\ last' = Ended("restart", "returned", "None")
    /\ UNCHANGED <<pc, volume_type, status, attempt, registered, volumes, nOps, saved>>
    /\ UNCHANGED statusVars

Next ==
    \/ StartCall
    \/ StartCreateVolume
    \/ StartScheduleJob
    \/ StartEnsureRunning
    \/ StartCancelled
    \/ StartService
    \/ Poll
    \/ Stop
    \/ SaveState
    \/ Restart

Spec == Init /\ [][Next]_vars

\* start() alone, never cancelled, with the event loop resuming it: every
\* await of start() completes (the request is answered or fails, the sleep of
\* line 336 and the wait of the retry wrapper end), so each step that is
\* possible is eventually taken
NextStart ==
    \/ StartCall
    \/ StartCreateVolume
    \/ StartScheduleJob
    \/ StartEnsureRunning
    \/ StartService

Fairness ==
    /\ WF_vars(StartCreateVolume)
    /\ WF_vars(StartScheduleJob)
    /\ WF_vars(StartEnsureRunning)
    /\ WF_vars(StartService)

SpecStart == Init /\ [][NextStart]_vars /\ Fairness

\* ------------------------------------------------------ status derivation
\* The scheduler holds one job document and its allocations; task_status is
\* applied to the allocations, job_status (with what poll() and
\* _ensure_running do with its result) to the job document.
Answers == [Status : Statuses, allocations : AllocResponses]

InitStatus ==
    /\ InstanceInit
    /\ answer \in Answers
    /\ derived = Unbound /\ seen = Unbound /\ polled = Unbound /\ branch = Unbound

TaskStatus ==
    /\ derived = Unbound
    /\ derived' = LET r == task_status(answer.allocations) IN
                  IF r.raised THEN "#raised" ELSE r.value
    /\ UNCHANGED <<answer, seen, polled, branch, spawnerVars, saved>>

JobStatus ==
    /\ derived # Unbound /\ seen = Unbound
    /\ LET r == job_status([is_error |-> FALSE, Status |-> answer.Status]) IN
          /\ seen' = r.value
          /\ polled' = poll_result(r)
          /\ branch' = EnsureBranch(r.value)
    /\ UNCHANGED <<answer, derived, spawnerVars, saved>>

NextStatus == TaskStatus \/ JobStatus

SpecStatus == InitStatus /\ [][NextStatus]_vars

\* ================================================================ claims
Cleared(f) == f = None \/ f = NoAttr
IsSet(f) == ~Cleared(f)
Idx == 1..Len(calls)
OfKind(k) == SelectSeq(calls, LAMBDA c : c.kind = k)
StartRaised == pc = "idle" /\ last = Ended("start", "raised", NoValue)

\* C1: when delete-job fails with a remote error during stop(), stop() still
\* returns normally and job_id, job_name and service_name are cleared.
C1_StopClearsOnDeleteError ==
    (last.op = "stop" /\ Len(calls) = 1 /\ calls[1].resp = "error")
        => /\ last.outcome = "returned"
           /\ Cleared(job_id) /\ Cleared(job_name) /\ Cleared(service_name)

C3_DeadIsFatal ==
    \A i \in Idx :
        (last.op = "start" /\ calls[i].kind = "status" /\ calls[i].resp = "dead")
            => /\ i = Len(calls)
               /\ StartRaised
               /\ Len(OfKind("registry")) = 0

C3_Witness ==
    /\ last.op = "start"
    /\ Len(OfKind("status")) > 1
    /\ calls[Len(calls)].kind = "status" /\ calls[Len(calls)].resp = "dead"

\* C4: start() makes at most 5 registry queries; 5 queries that all returned
\* zero instances end in start() raising; a query that returns exactly one
\* instance is the last one and start() returns that instance.
C4_BoundedResolution ==
    LET reg == OfKind("registry") IN
    /\ Len(reg) <= 5
    /\ (Len(reg) = 5 /\ \A k \in 1..5 : reg[k].resp = "ok" /\ Len(reg[k].nodes) = 0)
          => StartRaised
    /\ (pc = "resolve" /\ \A k \in 1..Len(reg) : Len(reg[k].nodes) = 0)
          => Len(reg) < 5
    /\ \A i \in Idx :
          (calls[i].kind = "registry" /\ Len(calls[i].nodes) = 1)
              => /\ i = Len(calls)
                 /\ pc = "idle"
                 /\ last = Ended("start", "returned", calls[i].nodes[1])

C4_Witness ==
    LET reg == OfKind("registry") IN
    /\ Len(reg) = 5
    /\ \A k \in 1..5 : reg[k].resp = "ok" /\ Len(reg[k].nodes) = 0
    /\ StartRaised

\* C5: a registry answer with more than one instance makes start() fail at
\* once: no endpoint is returned and no further registry attempt is made.
C5_AmbiguousServiceFails ==
    \A i \in Idx :
        (calls[i].kind = "registry" /\ Len(calls[i].nodes) > 1)
            => i = Len(calls) /\ StartRaised

\* C6: when the status query of poll() succeeds, poll() returns None exactly
\* when the status of the instance's job_id is "running", and returns the
\* status string itself otherwise.
C6_PollReportsStatus ==
    (last.op = "poll" /\ Len(calls) = 1 /\ calls[1].resp # "error")
        => /\ calls[1].kind = "status" /\ calls[1].arg = job_id
           /\ last.outcome = "returned"
           /\ (last.value = "None" <=> calls[1].resp = "running")
           /\ (calls[1].resp # "running" => last.value = calls[1].resp)

C6_Witness ==
    /\ last = Ended("poll", "returned", "")
    /\ Len(calls) = 1 /\ calls[1].resp = ""
    /\ IsSet(job_id)

\* C7: a poll() whose status query fails returns -1 (it does not raise and
\* reports neither Healthy nor a status) and leaves the identity unchanged.
C7_PollNeverRaises ==
    [][(Poll /\ Len(calls') = 1 /\ calls'[1].resp = "error")
          => /\ last' = Ended("poll", "returned", "-1")
             /\ identity' = identity]_vars

C7_Witness ==
    /\ last = Ended("poll", "returned", "-1")
    /\ Len(calls) = 1 /\ calls[1].resp = "error"
    /\ IsSet(job_id) /\ IsSet(service_name)

\* C8: before start() no identity field is set; when start() has returned
\* successfully all four are set, job_id is the id of the job the scheduler
\* registered and service_name is "{job_id}-notebook".
C8_IdentityInvariant ==
    /\ nOps = 0 => /\ ~IsSet(job_id) /\ ~IsSet(job_name)
                   /\ ~IsSet(service_name) /\ ~IsSet(notebook_id)
    /\ (pc = "idle" /\ last.op = "start" /\ last.outcome = "returned")
          => /\ IsSet(job_id) /\ IsSet(job_name)
             /\ IsSet(service_name) /\ IsSet(notebook_id)
             /\ job_id = registered
             /\ service_name = ServiceNameOf(job_id)

\* C9: after stop() has returned, the state that get_state() saves holds none
\* of job_id, job_name, service_name, notebook_id (the workload id).
C9_StopClearsSavedState ==
    (last.op = "stop" /\ last.outcome = "returned")
        => /\ Cleared(get_state.job_id) /\ Cleared(get_state.job_name)
           /\ Cleared(get_state.service_name) /\ Cleared(get_state.notebook_id)

\* C10: when start() failed after the job was submitted (job dead, or the
\* resolution exhausted), start() made no delete call, job_id is still the
\* submitted job's id, and a following stop() issues delete-job for that id.
FailedAfterSubmit ==
    /\ StartRaised
    /\ registered # None
    /\ \/ \E i \in Idx : calls[i].kind = "status" /\ calls[i].resp = "dead"
       \/ Len(OfKind("registry")) = 5

C10_FailedStartRecoveredByStop ==
    [][/\ FailedAfterSubmit'
          => /\ Len(OfKind("delete_job"))' = 0
             /\ job_id' = registered'
       /\ (FailedAfterSubmit /\ Stop /\ last'.outcome = "returned")
          => calls' = <<Call("delete_job", registered, calls'[1].resp, <<>>)>>]_vars

\* C11: create_volume is idempotent: a call answered with 2xx or with one of
\* the two already-exists conflict bodies succeeds (start() goes on to the job
\* submission), also when the volume exists from an earlier call with the same
\* id; any other error response makes it fail (start() raises).
C11_CreateVolumeIdempotent ==
    [][StartCreateVolume
          => LET c == calls'[Len(calls')] IN
             /\ c.kind = "create_volume" /\ c.arg = VolumeId
             /\ c.resp \in {"ok", "AccessPointAlreadyExists",
                            "volume external ID cannot be updated"}
                   => pc' = "submit" /\ last' = last
             /\ c.resp = "other" => StartRaised']_vars

C11_Witness ==
    /\ VolumeId \in volumes
    /\ nOps > 1
    /\ pc = "submit"
    /\ calls = <<Call("create_volume", VolumeId, "AccessPointAlreadyExists", <<>>)>>

\* C12: in a start() with volume_type "csi" the job is submitted only after a
\* create-volume call for "notebook-{notebook_id}" has succeeded, and not at
\* all when that call failed; with no volume or a host volume start() issues
\* no create-volume call.
C12_VolumeBeforeSubmit ==
    last.op = "start"
        => /\ \A i \in Idx :
                 (volume_type = "csi" /\ calls[i].kind \in {"parse", "register"})
                     => \E j \in 1..(i - 1) :
                           /\ calls[j].kind = "create_volume"
                           /\ calls[j].arg = <<"notebook-">> \o NotebookId
                           /\ calls[j].resp # "other"
           /\ (\E j \in Idx : calls[j].kind = "create_volume" /\ calls[j].resp = "other")
                 => Len(OfKind("parse")) = 0 /\ Len(OfKind("register")) = 0
           /\ volume_type # "csi" => Len(OfKind("create_volume")) = 0

C12_Witness ==
    /\ last.op = "start" /\ volume_type = "csi"
    /\ Len(calls) = 3
    /\ calls[1].kind = "create_volume" /\ calls[1].resp = "ok"
    /\ calls[3].kind = "register" /\ calls[3].resp = "ok"

\* ------------------------------------------- claims on the status derivation
\* the allocations answered, and the tasks of the one created last
Allocs == answer.allocations.allocs
Answered == derived # Unbound /\ ~answer.allocations.is_error
HasLatest == \E i \in 1..Len(Allocs) : Allocs[i].CreateTime = 2
LatestTasks ==
    Allocs[CHOOSE i \in 1..Len(Allocs) : Allocs[i].CreateTime = 2].TaskStates
FailedTask(t) == t.State = "dead" /\ t.Failed
AnyFailed(ts) == \E i \in 1..Len(ts) : FailedTask(ts[i])
AllRunning(ts) == \A i \in 1..Len(ts) : ts[i].State = "running"

\* C13: whenever a task of the latest allocation is dead and Failed, the
\* derived status is "dead", whatever the other tasks and their order.
C13_FailedTaskMeansDead ==
    (Answered /\ HasLatest /\ AnyFailed(LatestTasks)) => derived = "dead"

\* C14: with no allocation at all, or with a latest allocation without tasks,
\* the derived status is "pending" and task_status does not raise.
C14_NothingPlacedIsPending ==
    (Answered /\ (Len(Allocs) = 0 \/ (HasLatest /\ Len(LatestTasks) = 0)))
        => derived = "pending"

\* C15: for a latest allocation with at least one task and no failed task
\* (no tasks at all is the case of C14), the derived status is "running" when
\* every task runs, and otherwise follows the last event of the first task
\* that does not run: "starting" for Driver or Task Setup, else "pending",
\* also when that task has no event.
C15_DerivedFromFirstWaitingTask ==
    (Answered /\ HasLatest /\ Len(LatestTasks) > 0 /\ ~AnyFailed(LatestTasks))
        => LET ts == LatestTasks IN
           IF AllRunning(ts) THEN derived = "running"
           ELSE LET k == CHOOSE i \in 1..Len(ts) :
                            /\ ts[i].State # "running"
                            /\ \A j \in 1..(i - 1) : ts[j].State = "running"
                    ev == ts[k].Events
                IN derived = IF Len(ev) > 0 /\ ev[Len(ev)] \in {"Driver", "Task Setup"}
                             THEN "starting" ELSE "pending"

C15_Witness ==
    /\ Answered /\ HasLatest /\ Len(Allocs) = 2
    /\ Len(LatestTasks) = 2 /\ ~AnyFailed(LatestTasks)
    /\ LatestTasks[1].State = "running"
    /\ LatestTasks[2].State = "pending"
    /\ LatestTasks[2].Events = <<"Received", "Task Setup">>
    /\ derived = "starting"

\* C18: the status that poll() and _ensure_running act on is the one derived
\* from the task states of the latest allocation: the job is seen as running
\* (poll() returns None, the loop breaks) only if no task has failed and
\* every task runs.
C18_ActsOnDerivedStatus ==
    (seen # Unbound /\ Answered /\ HasLatest /\ Len(LatestTasks) > 0)
        => /\ seen \in {"pending", "starting", "running", "dead"}
           /\ (polled = "None" \/ branch = "break")
                 => /\ ~AnyFailed(LatestTasks)
                    /\ AllRunning(LatestTasks)
                    /\ derived = "running"

\* ------------------------------------------------ claims on restart recovery
\* the state saved is the one of a session that start() set up
SavedStarted ==
    /\ DOMAIN saved = {"job_id", "job_name", "service_name", "notebook_id"}
    /\ IsSet(saved.job_id) /\ IsSet(saved.job_name)
    /\ IsSet(saved.service_name) /\ IsSet(saved.notebook_id)

\* C16: loading the state that get_state() produced after a successful start()
\* into a fresh instance restores job_id, job_name, service_name and
\* notebook_id as saved (get_state() of the revived instance is the saved
\* state), and the poll() or stop() that follows makes its one scheduler call
\* for the saved job_id.
C16_RestartRoundTrip ==
    [][ /\ (Restart /\ SavedStarted) => get_state' = saved
        /\ ((Poll \/ Stop) /\ last.op = "restart" /\ SavedStarted /\ calls' # <<>>)
              => /\ Len(calls') = 1
                 /\ calls'[1].kind \in {"status", "delete_job"}
                 /\ calls'[1].arg = saved.job_id ]_vars

C16_Witness ==
    /\ last.op = "restart" /\ SavedStarted
    /\ get_state = saved
    /\ job_id # job_name
    /\ nOps < MaxOps

\* --------------------------------------------------- claims on the clients
\* C17: whenever start(), poll() or stop() has returned or raised, every
\* client it opened is closed, also when it failed while setting up its
\* clients and services.
C17_ClientsClosedOnExit ==
    (pc = "idle" /\ last.op \in {"start", "poll", "stop"}) => open = {}

\* ------------------------------------------- claims on a failing start()
\* C19: when start() fails in volume provisioning, job-spec building or job
\* submission, it raises to the caller and leaves job_id, job_name,
\* service_name and notebook_id as they were (not set on a new instance),
\* also when the volume was created; an error answer of the scheduler to
\* create-volume (other than the tolerated one), parse or register is such a
\* failure.
C19_EarlyFailureCommitsNothing ==
    [][ /\ (pc \in {"volume", "submit"} /\ pc' = "idle")
              => StartRaised' /\ identity' = identity
        /\ (pc \in {"volume", "submit"} /\ Len(calls') > Len(calls)
              /\ calls'[Len(calls')].resp \in {"error", "other"})
              => StartRaised' /\ identity' = identity ]_vars

C19_Witness ==
    /\ StartRaised
    /\ VolumeId \in volumes
    /\ Len(calls) = 3
    /\ calls[1].kind = "create_volume" /\ calls[1].resp = "ok"
    /\ calls[3].kind = "register" /\ calls[3].resp = "error"
    /\ identity = <<NoAttr, NoAttr, NoAttr, NoAttr>>

\* ------------------------------------------------- claims on the volume
\* C20: stop() leaves the volumes at the scheduler as they are, and the only
\* remote call it makes is delete-job for the instance's job_id.
C20_StopKeepsVolume ==
    [][Stop => /\ volumes' = volumes
               /\ \/ calls' = <<>>
                  \/ /\ Len(calls') = 1
                     /\ calls'[1].kind = "delete_job"
                     /\ calls'[1].arg = job_id]_vars

C20_Witness ==
    /\ last = Ended("stop", "returned", "None")
    /\ volume_type = "csi"
    /\ VolumeId \in volumes
    /\ Len(calls) = 1 /\ calls[1].kind = "delete_job" /\ calls[1].resp = "ok"
    /\ job_id = None

\* ------------------------------------------------ claims on the waiting loop
\* C21: when start() is cancelled while suspended in the waiting loop, no
\* further status query is made, the clients are closed, job_id stays set,
\* and a stop() that follows and returns issues delete-job for the job that
\* start() submitted.
C21_CancelledStartRecoveredByStop ==
    [][ /\ StartCancelled
            => /\ calls' = calls /\ open' = {} /\ pc' = "idle"
               /\ job_id' = job_id /\ IsSet(job_id')
        /\ (last = Ended("start", "cancelled", NoValue) /\ Stop
              /\ last'.outcome = "returned")
            => calls' = <<Call("delete_job", registered, calls'[1].resp, <<>>)>> ]_vars

\* the loop has used up the queries the model allows and none of them was
\* answered with running or dead: the loop that goes on forever
LoopStuck ==
    /\ pc = "ensure"
    /\ Len(OfKind("status")) = MaxPolls
    /\ \A i \in Idx : calls[i].kind = "status" => calls[i].resp \notin {"running", "dead"}

StartEnded ==
    pc = "idle" /\ last.op = "start" /\ last.outcome \in {"returned", "raised"}

\* C22: once the job is submitted, a status query answered with running or
\* dead ends the waiting loop in that iteration; the loop always ends unless
\* no status query is ever answered with running or dead; and with the bounded
\* retry of the resolution, start() then returns or fails.
C22_LoopExitsOnRunningOrDead ==
    /\ [][(StartEnsureRunning /\ calls'[Len(calls')].resp \in {"running", "dead"})
             => pc' # "ensure"]_vars
    /\ (pc = "ensure") ~> (pc # "ensure" \/ LoopStuck)
    /\ (pc \in {"ensure", "resolve"}) ~> (StartEnded \/ LoopStuck)

C22_Witness ==
    /\ StartEnded /\ last.outcome = "returned"
    /\ Len(OfKind("status")) = 2
    /\ OfKind("status")[1].resp = "pending"
    /\ OfKind("status")[2].resp = "running"

\* C23: in the waiting loop a status query that fails is swallowed at every
\* iteration, the first included: start() does not fail by it, the loop does
\* not exit as running, and it stays in the loop to query again.
C23_StatusErrorSwallowed ==
    [][(StartEnsureRunning /\ calls'[Len(calls')].resp = "error")
          => /\ pc' = "ensure"
             /\ last' = last
             /\ open' = open]_vars

====
